---- MODULE Spec2Model ----
(***************************************************************************)
(* A model of torchneuromorphic/transforms.py: the transforms that act on  *)
(* address-event arrays (rows t, p, x, y), the two binning transforms, the *)
(* jitter of a frame tensor and the temporal filters.                      *)
(*                                                                         *)
(* A state is one transform instance together with the array object its    *)
(* caller holds.  Init is the state after construction of the instance and *)
(* of the caller's array; each action is one __call__ of the instance on   *)
(* that same array object.  Every __call__ is an operator that yields the  *)
(* returned value (or the exception raised) and the contents of the        *)
(* caller's array after the call, so an in-place write is visible.         *)
(***************************************************************************)
EXTENDS Integers, Sequences, FiniteSets, TLC

VARIABLES
  inst,    \* the transform instance: its class and its configuration
  dtype,   \* element type of the caller's array
  array,   \* the caller's array object, as it is now
  given,   \* the caller's array as it was before the first call
  out,     \* what the last call returned or raised
  first,   \* what the first call returned or raised
  calls    \* number of calls made on this instance

vars == <<inst, dtype, array, given, out, first, calls>>

---------------------------------------------------------------------------
(* Bounds of the model. *)

\* Largest coordinate of an event, and largest crop bound.
MaxCoord == 2
\* Largest event timestamp.
MaxTime == 2
\* Largest number of time bins T of a binning transform.
MaxT == 3
\* Calls made on one instance with one array.
MaxCalls == 2
\* Longest kernel of a temporal filter.
MaxKLen == 3
\* Largest channel count of a temporal filter.
MaxChan == 3

---------------------------------------------------------------------------
(* Results of a call. *)

NoResult == [kind |-> "none", val |-> <<>>]

Returned(v) == [kind |-> "returned", val |-> v]

Raised(e) == [kind |-> "raised", val |-> e]

SameResult(a, b) == a.kind = b.kind /\ a.val = b.val

---------------------------------------------------------------------------
(* Sequence helpers standing for numpy's whole-array operations.            *)
(* np.delete(tmad, np.where(cond), 0) is SelectSeq with the negated cond:  *)
(* a new array without the rows cond holds of.                             *)

RECURSIVE SumSeq(_)
SumSeq(s) == IF s = <<>> THEN 0 ELSE Head(s) + SumSeq(Tail(s))

\* All sequences over S of length 0, 1 or 2.
UpToTwo(S) == {<<>>} \cup {<<a>> : a \in S} \cup {<<a, b>> : a \in S, b \in S}

---------------------------------------------------------------------------
(* Downsample *)

Downsample(factor) == [cls |-> "Downsample", factor |-> factor]

\* tmad // self.factor : a new array, every field floor-divided.
DownsampleCall(self, tmad) ==
  [ret   |-> Returned([k \in 1..Len(tmad) |->
                         [c \in 1..Len(tmad[k]) |-> tmad[k][c] \div self.factor]]),
   array |-> tmad]

---------------------------------------------------------------------------
(* CropDims.  dims holds 0-based column numbers, as in the source. *)

CropDims(low_crop, high_crop, dims) ==
  [cls |-> "CropDims", low_crop |-> low_crop, high_crop |-> high_crop, dims |-> dims]

\* tmad[:,d] >= self.high_crop[i]
AtOrAboveHigh(v, high) == v >= high

\* tmad[:,d] < self.low_crop[i], with the comparison widened to <=
BelowLowInclusive(v, low) == v <= low

\* tmad[:,d] < self.low_crop[i]
BelowLow(v, low) == v < low

\* tmad[:,d] = tmad[:,d] - self.low_crop[i], on one row
Normalize(r, d, low) == [r EXCEPT ![d + 1] = @ - low]

\* The body of the loop over enumerate(self.dims), from index i on.  Both
\* np.delete calls build new arrays, so the normalisation writes to a copy.
RECURSIVE CropDimsLoop(_, _, _)
CropDimsLoop(self, tmad, i) ==
  IF i >= Len(self.dims) THEN tmad
  ELSE LET d  == self.dims[i + 1]
           hi == self.high_crop[i + 1]
           lo == self.low_crop[i + 1]
           a  == SelectSeq(tmad, LAMBDA r : ~AtOrAboveHigh(r[d + 1], hi))
           b  == SelectSeq(a, LAMBDA r : ~BelowLow(r[d + 1], lo))
           c  == [k \in 1..Len(b) |-> Normalize(b[k], d, lo)]
       IN  CropDimsLoop(self, c, i + 1)

\* With dims empty the loop body never runs and the argument itself is returned;
\* otherwise the first np.delete has replaced it by a copy.  Either way the
\* caller's array keeps its contents.
CropDimsCall(self, tmad) ==
  [ret |-> Returned(CropDimsLoop(self, tmad, 0)), array |-> tmad]

---------------------------------------------------------------------------
(* Fixed-width integers of numpy.  A value v is held in two limbs,           *)
(* v = hi * 2^16 + lo with 0 <= lo < 2^16, so that 32-bit wrap-around can be *)
(* computed exactly.                                                         *)

Limb == 2 ^ 16

Wide(v) == [hi |-> v \div Limb, lo |-> v % Limb]

WideSub(a, b) ==
  LET l == a.lo - b.lo
  IN  [hi |-> (a.hi - b.hi) + (l \div Limb), lo |-> l % Limb]

WideLess(a, b) == a.hi < b.hi \/ (a.hi = b.hi /\ a.lo < b.lo)

\* astype / same-kind cast on an in-place store.  int64 never wraps at the
\* magnitudes of the model.
AsType(a, t) ==
  CASE t = "uint32" -> [hi |-> a.hi % Limb, lo |-> a.lo]
    [] t = "int32"  -> [hi |-> ((a.hi + Limb \div 2) % Limb) - Limb \div 2, lo |-> a.lo]
    [] t = "int64"  -> a

---------------------------------------------------------------------------
(* CropCenter.  The x and y fields of its event rows are held as limbs. *)

CropCenter(center, size) ==
  [cls         |-> "CropCenter",
   center      |-> [i \in 1..2 |-> AsType(Wide(center[i]), "uint32")],
   att_shape   |-> [i \in 1..2 |-> AsType(Wide(size[i + 1]), "uint32")],
   translation |-> [i \in 1..2 |->
                      AsType(Wide(center[i] - (size[i + 1] \div 2)), "uint32")]]

\* np.any(tmad[:, 2:] < [0,0], axis=1), never true
NeverBelowZero(r) == FALSE

\* np.any(tmad[:, 2:] >= self.att_shape, axis=1)
AnyAtOrAboveShape(r, att_shape) ==
  ~WideLess(r[3], att_shape[1]) \/ ~WideLess(r[4], att_shape[2])

\* np.any(tmad[:, 2:] < [0,0], axis=1)
AnyBelowZero(r) == WideLess(r[3], Wide(0)) \/ WideLess(r[4], Wide(0))

\* tmad[:, 2:] -= trans writes through the view into the caller's array; the
\* difference is computed exactly and stored in the array's element type.
CropCenterCall(self, tmad, t) ==
  LET moved == [k \in 1..Len(tmad) |->
                 <<tmad[k][1], tmad[k][2],
                   AsType(WideSub(tmad[k][3], self.translation[1]), t),
                   AsType(WideSub(tmad[k][4], self.translation[2]), t)>>]
      a == SelectSeq(moved, LAMBDA r : ~AnyAtOrAboveShape(r, self.att_shape))
      b == SelectSeq(a, LAMBDA r : ~AnyBelowZero(r))
  IN  [ret |-> Returned(b), array |-> moved]

---------------------------------------------------------------------------
(* ToChannelHeightWidth.  Its argument is held with its column count n, so *)
(* that an array without rows still has a shape.                            *)

ToChannelHeightWidth == [cls |-> "ToChannelHeightWidth"]

\* np.column_stack([tmad, o, o]) with o = np.zeros(tmad.shape[0])
ColumnStackZeros(tmad) ==
  [n |-> tmad.n + 2, rows |-> [k \in 1..Len(tmad.rows) |-> tmad.rows[k] \o <<0, 0>>]]

\* __call__ without the final else: any other column count falls through and
\* the argument comes back.
ToChannelHeightWidthCallNoRaise(self, tmad) ==
  [ret |-> IF tmad.n = 2 THEN Returned(ColumnStackZeros(tmad)) ELSE Returned(tmad),
   array |-> tmad]

ToChannelHeightWidthCall(self, tmad) ==
  LET n == tmad.n
  IN  [ret |-> IF n = 2 THEN Returned(ColumnStackZeros(tmad))
               ELSE IF n = 4 THEN Returned(tmad)
               ELSE Raised("TypeError"),
       array |-> tmad]

---------------------------------------------------------------------------
(* Binning: ToCountFrame and ToEventSum. *)

\* dtype='int8' of chunks
Int8Bits == 8

\* Storing v in an int8 cell keeps it modulo 2^8, in -2^7 .. 2^7 - 1.
Int8Wrap(v) == ((v + 2 ^ (Int8Bits - 1)) % (2 ^ Int8Bits)) - 2 ^ (Int8Bits - 1)

\* bisect.bisect_left(a, x, lo, hi), on 0-based positions of a.
RECURSIVE bisect_left(_, _, _, _)
bisect_left(a, x, lo, hi) ==
  IF lo < hi
  THEN LET mid == (lo + hi) \div 2
       IN  IF a[mid + 1] < x THEN bisect_left(a, x, mid + 1, hi)
                             ELSE bisect_left(a, x, lo, mid)
  ELSE lo

find_first(a, tgt) == bisect_left(a, tgt, 0, Len(a))

ToCountFrame(T, size) == [cls |-> "ToCountFrame", T |-> T, size |-> size]

ToEventSum(T, size) == [cls |-> "ToEventSum", T |-> T, size |-> size]

\* The index set of np.zeros([len(ts)] + self.size).
Cells(T, size) ==
  {<<i, p, x, y>> : i \in 0..(T - 1), p \in 0..(size[1] - 1),
                    x \in 0..(size[2] - 1), y \in 0..(size[3] - 1)}

\* np.add.at(chunks, (i, ee[:,0], ee[:,1], ee[:,2]), 1): unbuffered, so every
\* row of ee adds 1 to its cell of bin i, and each sum is stored back into int8:
\* a cell ends at its old value plus the number of rows that address it,
\* modulo 2^8.
AddAt(chunks, i, ee) ==
  [c \in DOMAIN chunks |->
     IF c[1] = i
     THEN Int8Wrap(chunks[c] +
            Cardinality({k \in 1..Len(ee) : ee[k] = <<c[2], c[3], c[4]>>}))
     ELSE chunks[c]]

\* The target of the search in ToEventSum, moved one bin down.
EventSumTargetBelow(t) == t - 1

\* find_first(times[idx_end:], t + 1) in ToCountFrame
CountFrameTarget(t) == t + 1

\* find_first(times[idx_end:], t) in ToEventSum
EventSumTarget(t) == t

\* The loop over enumerate(ts), from bin t on (i = t, as ts = range(0, T)).
\* It yields chunks and the slices [idx_start, idx_end) of the rows scattered
\* into each bin.
RECURSIVE BinLoop(_, _, _, _, _, _, _, _)
BinLoop(self, times, addrs, t, idx_start, idx_end, chunks, slices) ==
  IF t >= self.T THEN [chunks |-> chunks, slices |-> slices]
  ELSE LET tgt == IF self.cls = "ToCountFrame" THEN CountFrameTarget(t)
                                              ELSE EventSumTarget(t)
           end == idx_end + find_first(SubSeq(times, idx_end + 1, Len(times)), tgt)
           ee  == SubSeq(addrs, idx_start + 1, end)
       IN  IF end > idx_start
           THEN BinLoop(self, times, addrs, t + 1, end, end,
                        AddAt(chunks, t, ee),
                        Append(slices, <<t, idx_start, end>>))
           ELSE BinLoop(self, times, addrs, t + 1, end, end, chunks, slices)

\* The body shared by the two __call__ methods, on a non-empty array.
Binned(self, tmad) ==
  LET times == [k \in 1..Len(tmad) |-> tmad[k][1]]
      addrs == [k \in 1..Len(tmad) |-> SubSeq(tmad[k], 2, 4)]
  IN  BinLoop(self, times, addrs, 0, 0, 0,
              [c \in Cells(self.T, self.size) |-> 0], <<>>)

\* chunks.sum(axis=0, keepdims=True): the sum is taken in the platform integer.
SumOverTime(chunks, T, size) ==
  [c \in Cells(1, size) |->
     SumSeq([j \in 1..T |-> chunks[<<j - 1, c[2], c[3], c[4]>>]])]

\* times[0] raises IndexError on an array without rows.
ToCountFrameCall(self, tmad) ==
  [ret |-> IF Len(tmad) = 0 THEN Raised("IndexError")
           ELSE Returned(Binned(self, tmad).chunks),
   array |-> tmad]

ToEventSumCall(self, tmad) ==
  [ret |-> IF Len(tmad) = 0 THEN Raised("IndexError")
           ELSE Returned(SumOverTime(Binned(self, tmad).chunks, self.T, self.size)),
   array |-> tmad]

---------------------------------------------------------------------------
(* Jitter.  data is one (H, W) slice of the (N, T, C, H, W) tensor, held as  *)
(* data[x + 1][y + 1]; every slice is moved alike.                           *)

Jitter(xs, ys, th, size) ==
  [cls |-> "Jitter", xs |-> xs, ys |-> ys, th |-> th, size |-> size]

\* The test of the fast path with == read as !=.
NotJitteringInverted(self) == self.xs # 0 /\ self.ys # 0 /\ self.th # 0

\* self.xs == 0 and self.ys == 0 and self.th == 0
NotJittering(self) == self.xs = 0 /\ self.ys = 0 /\ self.th = 0

\* The rotations the model draws for ajitter: the quarter turns, whose sine
\* and cosine are integers, among the angles (rand - 0.5) * th degrees can be.
QuarterTurns ==
  {[deg |-> 0, cosTh |-> 1, sinTh |-> 0], [deg |-> 90, cosTh |-> 0, sinTh |-> 1],
   [deg |-> -90, cosTh |-> 0, sinTh |-> -1], [deg |-> -180, cosTh |-> -1, sinTh |-> 0]}

Rotations(th) ==
  {q \in QuarterTurns : q.deg = 0 \/ (-th <= 2 * q.deg /\ 2 * q.deg < th)}

\* if v < 0: v = 0; if v > n - 1: v = n - 1
Clamp(v, n) == IF v < 0 THEN 0 ELSE IF v > n - 1 THEN n - 1 ELSE v

\* The two nested loops over x and y, in order, from pair number k on;
\* a later write to the same destination replaces an earlier one.
RECURSIVE JitterLoop(_, _, _, _, _, _, _)
JitterLoop(self, data, jittered, k, xjitter, yjitter, q) ==
  LET H == self.size[2]
      W == self.size[3]
  IN  IF k >= H * W THEN jittered
      ELSE LET x    == k \div W
               y    == k % W
               xnew == Clamp(x * q.cosTh - y * q.sinTh + xjitter, H)
               ynew == Clamp(x * q.sinTh + y * q.cosTh + yjitter, W)
           IN  JitterLoop(self, data,
                          [jittered EXCEPT ![xnew + 1][ynew + 1] = data[x + 1][y + 1]],
                          k + 1, xjitter, yjitter, q)

\* Every outcome of one call.  np.random.randint(0) raises ValueError.
JitterCall(self, data) ==
  IF NotJittering(self) THEN {[ret |-> Returned(data), array |-> data]}
  ELSE IF self.xs = 0 \/ self.ys = 0
       THEN {[ret |-> Raised("ValueError"), array |-> data]}
       ELSE {[ret |-> Returned(JitterLoop(self, data,
                                 [x \in 1..self.size[2] |-> [y \in 1..self.size[3] |-> 0]],
                                 0, xr - self.xs, yr - self.ys, q)),
              array |-> data] :
               xr \in 0..(2 * self.xs - 1), yr \in 0..(2 * self.ys - 1),
               q \in Rotations(self.th)}

---------------------------------------------------------------------------
(* FilterEvents and ExpFilterEvents.  A tensor is held with its number of   *)
(* dimensions: val[t][c] for (T, C, 1, 1) and val[n][t][c] for              *)
(* (N, T, C, 1, 1).  A kernel of shape (O, 1, K, 1, 1) is held as           *)
(* kernel[o][k].                                                            *)

\* tpad is <<>> for None and <<v>> for the value v.
FilterEvents(kernel, groups, tpad) ==
  [cls    |-> "FilterEvents",
   kernel |-> kernel,
   groups |-> groups,
   tpad   |-> IF tpad = <<>> THEN Len(kernel[1]) \div 2 ELSE tpad[1]]

\* exp(-t/tau) / sum, for the tau that halves the weight at every step
\* (tau = 1 / ln 2), in units of 1 / (2^length - 1): 2^(length - 1 - t).
exp_kernel(length) == [t \in 1..length |-> 2 ^ (length - t)]

\* torch.flip(exp_kernel, [0])
Flip(s) == [k \in 1..Len(s) |-> s[Len(s) + 1 - k]]

\* groups = 2
ExpGroups == 2

ExpFilterEvents(length, channels, tpad) ==
  [FilterEvents([i \in 1..channels |-> Flip(exp_kernel(length))], ExpGroups, tpad)
     EXCEPT !.cls = "ExpFilterEvents"]

\* permute / transpose of the two leading axes of one sample
Transpose(m) == [j \in 1..Len(m[1]) |-> [i \in 1..Len(m) |-> m[i][j]]]

\* One sample of the zero-padded input at 1-based time j - tpad.
Padded(x, j) == IF j >= 1 /\ j <= Len(x) THEN x[j] ELSE 0

\* torch.nn.functional.conv3d(data, kernel, groups=groups, padding=[tpad,0,0])
\* on data[n][c][t]: a cross-correlation along time.  Output channel o reads the
\* input channels of its group, one per group as kernel.shape[1] = 1.
Conv3d(data, kernel, groups, tpad) ==
  LET N    == Len(data)
      C    == Len(data[1])
      T    == Len(data[1][1])
      O    == Len(kernel)
      K    == Len(kernel[1])
      Tout == T + 2 * tpad - K + 1
      in(o) == ((o - 1) \div (O \div groups)) + 1
  IN  IF C # groups \/ O % groups # 0 \/ Tout <= 0
      THEN Raised("RuntimeError")
      ELSE Returned([n \in 1..N |-> [o \in 1..O |-> [t \in 1..Tout |->
             SumSeq([k \in 1..K |->
                       kernel[o][k] * Padded(data[n][in(o)], t + k - 1 - tpad)])]]])

FilterEventsCall(self, chunks) ==
  LET data == IF chunks.ndim = 4 THEN <<Transpose(chunks.val)>>
              ELSE [n \in 1..Len(chunks.val) |-> Transpose(chunks.val[n])]
      Y    == Conv3d(data, self.kernel, self.groups, self.tpad)
      Yt   == [n \in 1..Len(Y.val) |-> Transpose(Y.val[n])]
  IN  [ret |-> IF Y.kind = "raised" THEN Y
               ELSE IF chunks.ndim = 4 THEN Returned([ndim |-> 4, val |-> Yt[1]])
               ELSE Returned([ndim |-> 5, val |-> Yt]),
       array |-> chunks]

---------------------------------------------------------------------------
(* The instances and arrays the model starts from. *)

\* Event rows (t, p, x, y) whose coordinates vary.
XYEvents == {<<0, 0, x, y>> : x \in 0..MaxCoord, y \in 0..MaxCoord}

\* Event rows whose four fields all vary.
TPXYEvents == {<<t, p, x, y>> : t \in {0, 5}, p \in {0, 1}, x \in 0..MaxCoord, y \in {0, 3}}

\* The rows of XYEvents with x and y held as limbs.
WideXYEvents == {<<e[1], e[2], Wide(e[3]), Wide(e[4])>> : e \in XYEvents}

DimsChoices == {<<>>, <<2>>, <<3>>, <<2, 3>>, <<3, 2>>, <<2, 2>>}

CropDimsInstances ==
  UNION {{CropDims(lo, hi, dims) :
            lo \in [1..Len(dims) -> 0..1],
            hi \in [1..Len(dims) -> 1..MaxCoord]} :
         dims \in DimsChoices}

ValidCropDims(self) ==
  \A i \in 1..Len(self.dims) : self.low_crop[i] < self.high_crop[i]

CropCenterInstances ==
  {CropCenter(<<cx, cy>>, <<2, H, W>>) :
     cx \in 0..MaxCoord, cy \in 0..1, H \in 1..MaxCoord, W \in 1..2}

\* dtype='int8' holds at most 2^7 - 1: a burst of 2^7 equal events.
BurstLen == 2 ^ (Int8Bits - 1)

BinSize == <<2, 1, 1>>

\* A run is an event repeated n times.  Timestamps count from the start of
\* the sample, as the bins ts = range(0, T) do: t >= 0.
Runs == {[ev |-> <<t, p, 0, 0>>, n |-> n] :
           t \in 0..MaxTime, p \in 0..(BinSize[1] - 1), n \in {1, BurstLen}}

Expand(rs) ==
  IF Len(rs) = 0 THEN <<>>
  ELSE IF Len(rs) = 1 THEN [k \in 1..rs[1].n |-> rs[1].ev]
  ELSE [k \in 1..rs[1].n |-> rs[1].ev] \o [k \in 1..rs[2].n |-> rs[2].ev]

\* Event lists in ascending order of timestamp, of one or two runs, and the
\* list without events.
SortedEventLists ==
  {Expand(rs) : rs \in {r \in UpToTwo(Runs) : Len(r) = 2 => r[1].ev[1] <= r[2].ev[1]}}

BinningInstances ==
  {ToCountFrame(T, BinSize) : T \in 1..MaxT} \cup {ToEventSum(T, BinSize) : T \in 1..MaxT}

\* Largest column count of an array given to ToChannelHeightWidth.
MaxCols == 5

ColumnArrays ==
  UNION {{[n |-> n, rows |-> rows] : rows \in UpToTwo([1..n -> {0, 1}])} : n \in 1..MaxCols}

JitterSize == <<1, 2, 2>>

JitterInstances ==
  {Jitter(xs, ys, th, JitterSize) : xs \in {0, 1}, ys \in {0, 1}, th \in {0, 360}}

JitterData == [1..JitterSize[2] -> [1..JitterSize[3] -> {0, 1}]]

\* Time bins of a tensor given to a filter.
NBins == 2

FilterInstances ==
  {ExpFilterEvents(length, channels, <<>>) :
     length \in 1..MaxKLen, channels \in 1..MaxChan}
  \cup
  {FilterEvents([i \in 1..channels |-> [k \in 1..length |-> 1]], channels, <<>>) :
     length \in 1..MaxKLen, channels \in 1..MaxChan}

Samples(C) == [1..NBins -> [1..C -> {0, 1}]]

\* Tensors (T, C, 1, 1).
FilterData4 == UNION {{[ndim |-> 4, val |-> v] : v \in Samples(C)} : C \in 1..2}

\* Tensors (N, T, C, 1, 1) with N = 2.
FilterData5 ==
  UNION {{[ndim |-> 5, val |-> <<v, w>>] : v \in Samples(C), w \in Samples(C)} :
         C \in 1..2}

Start(i, t, a) ==
  /\ inst = i
  /\ dtype = t
  /\ array = a
  /\ given = a
  /\ out = NoResult
  /\ first = NoResult
  /\ calls = 0

InitDownsample ==
  \E f \in {1, 2}, a \in UpToTwo(TPXYEvents) : Start(Downsample(f), "int64", a)

InitCropDims ==
  \E i \in CropDimsInstances, a \in UpToTwo(XYEvents) : Start(i, "int64", a)

InitCropCenter ==
  \E i \in CropCenterInstances, t \in {"int64", "int32", "uint32"},
     a \in UpToTwo(WideXYEvents) : Start(i, t, a)

InitToChannelHeightWidth ==
  \E a \in ColumnArrays : Start(ToChannelHeightWidth, "int64", a)

InitBinning ==
  \E i \in BinningInstances, a \in SortedEventLists : Start(i, "int64", a)

InitJitter ==
  \E i \in JitterInstances, a \in JitterData : Start(i, "float32", a)

InitFilter ==
  \E i \in FilterInstances :
    \/ \E a \in FilterData4 : Start(i, "float32", a)
    \/ \E a \in FilterData5 : Start(i, "float32", a)

Init ==
  \/ InitDownsample
  \/ InitCropDims
  \/ InitCropCenter
  \/ InitToChannelHeightWidth
  \/ InitBinning
  \/ InitJitter
  \/ InitFilter

---------------------------------------------------------------------------
(* The calls. *)

\* One more call has been made, with result r.
Called(r) ==
  /\ calls < MaxCalls
  /\ calls' = calls + 1
  /\ out' = r.ret
  /\ first' = IF calls = 0 THEN r.ret ELSE first
  /\ array' = r.array
  /\ UNCHANGED <<inst, dtype, given>>

CallDownsample == inst.cls = "Downsample" /\ Called(DownsampleCall(inst, array))

CallCropDims == inst.cls = "CropDims" /\ Called(CropDimsCall(inst, array))

CallCropCenter == inst.cls = "CropCenter" /\ Called(CropCenterCall(inst, array, dtype))

CallToChannelHeightWidth ==
  inst.cls = "ToChannelHeightWidth" /\ Called(ToChannelHeightWidthCall(inst, array))

CallToCountFrame == inst.cls = "ToCountFrame" /\ Called(ToCountFrameCall(inst, array))

CallToEventSum == inst.cls = "ToEventSum" /\ Called(ToEventSumCall(inst, array))

CallJitter == inst.cls = "Jitter" /\ \E r \in JitterCall(inst, array) : Called(r)

CallFilterEvents ==
  inst.cls \in {"FilterEvents", "ExpFilterEvents"} /\ Called(FilterEventsCall(inst, array))

Next ==
  \/ CallDownsample
  \/ CallCropDims
  \/ CallCropCenter
  \/ CallToChannelHeightWidth
  \/ CallToCountFrame
  \/ CallToEventSum
  \/ CallJitter
  \/ CallFilterEvents

Spec == Init /\ [][Next]_vars

SpecCropDims == InitCropDims /\ [][CallCropDims]_vars

SpecCropCenter == InitCropCenter /\ [][CallCropCenter]_vars

SpecToChannelHeightWidth ==
  InitToChannelHeightWidth /\ [][CallToChannelHeightWidth]_vars

SpecBinning == InitBinning /\ [][CallToCountFrame \/ CallToEventSum]_vars

SpecJitter == InitJitter /\ [][CallJitter]_vars

SpecFilter == InitFilter /\ [][CallFilterEvents]_vars

---------------------------------------------------------------------------
(* Properties. *)

Called1 == calls >= 1

RECURSIVE SumOver(_, _)
SumOver(f, S) ==
  IF S = {} THEN 0
  ELSE LET c == CHOOSE c \in S : TRUE IN f[c] + SumOver(f, S \ {c})

\* Number of events of tmad with a timestamp in [0, T).
EventsInWindow(tmad, T) ==
  Cardinality({k \in 1..Len(tmad) : 0 <= tmad[k][1] /\ tmad[k][1] < T})

\* The slices scattered into the bins are disjoint ranges of rows, one per bin.
SlicesDisjoint(slices) ==
  \A a, b \in 1..Len(slices) :
    a < b => slices[a][1] # slices[b][1] /\ slices[a][3] <= slices[b][2]

\* C1: for a non-empty time-sorted event list and T >= 1, the ToCountFrame
\* output summed over all bins and cells equals the number of events with a
\* timestamp in [0, T), and no event is scattered into more than one bin.
C1_TotalIsEventsInWindow ==
  (inst.cls = "ToCountFrame" /\ Called1 /\ Len(given) > 0) =>
    /\ out.kind = "returned"
    /\ SumOver(out.val, DOMAIN out.val) = EventsInWindow(given, inst.T)
    /\ SlicesDisjoint(Binned(inst, given).slices)

\* No event has the timestamp T - 1, the one bin edge at which the two summed
\* outputs differ: ToCountFrame takes timestamps below T, ToEventSum below T - 1.
NoEventOnDivergingEdge(tmad, T) == \A k \in 1..Len(tmad) : tmad[k][1] # T - 1

InAllBounds(self, r) ==
  \A i \in 1..Len(self.dims) :
    self.low_crop[i] <= r[self.dims[i] + 1] /\ r[self.dims[i] + 1] < self.high_crop[i]

\* val holds, in input order, exactly the rows of tmad within all bounds, each
\* re-based by low_crop[i] in dimension dims[i] and otherwise unchanged.
KeptAndRebased(self, tmad, val) ==
  LET kept == SelectSeq(tmad, LAMBDA r : InAllBounds(self, r))
  IN  /\ Len(val) = Len(kept)
      /\ \A j \in 1..Len(kept) :
           /\ \A i \in 1..Len(self.dims) :
                /\ val[j][self.dims[i] + 1] = kept[j][self.dims[i] + 1] - self.low_crop[i]
                /\ 0 <= val[j][self.dims[i] + 1]
                /\ val[j][self.dims[i] + 1] < self.high_crop[i] - self.low_crop[i]
           /\ \A c \in 1..Len(kept[j]) :
                (\A i \in 1..Len(self.dims) : self.dims[i] + 1 # c) => val[j][c] = kept[j][c]

DistinctDims(self) ==
  \A i, j \in 1..Len(self.dims) : i # j => self.dims[i] # self.dims[j]

\* C3, as stated: for all CropDims(low_crop, high_crop, dims) with
\* low_crop[i] < high_crop[i], the output is, in input order, exactly the
\* input events within the bounds of every configured dimension, each
\* re-based to value - low_crop[i], hence in [0, high_crop[i] - low_crop[i]).
C3_CropDimsKeepsInBounds ==
  (inst.cls = "CropDims" /\ Called1 /\ ValidCropDims(inst)) =>
    out.kind = "returned" /\ KeptAndRebased(inst, given, out.val)

\* C3, amended: the same, for dims that name every column at most once.
C3_CropDimsKeepsInBoundsDistinct ==
  (inst.cls = "CropDims" /\ Called1 /\ ValidCropDims(inst) /\ DistinctDims(inst)) =>
    out.kind = "returned" /\ KeptAndRebased(inst, given, out.val)

\* A CropDims call over two distinct dimensions with a positive low bound that
\* kept one event and removed another.
C3_Witness ==
  /\ inst.cls = "CropDims" /\ Called1 /\ ValidCropDims(inst) /\ DistinctDims(inst)
  /\ Len(inst.dims) = 2
  /\ \E i \in 1..2 : inst.low_crop[i] > 0
  /\ out.kind = "returned"
  /\ Len(out.val) = 1 /\ Len(given) = 2

\* C4: every event CropCenter(center, size) returns has x in [0, size[1])
\* and y in [0, size[2]), also when center - size[1:] // 2 is negative and
\* the translation is stored as an unsigned 32-bit value.
C4_CropCenterWithinShape ==
  (inst.cls = "CropCenter" /\ Called1) =>
    /\ out.kind = "returned"
    /\ \A j \in 1..Len(out.val) :
         /\ out.val[j][3].hi = 0 /\ out.val[j][3].lo < inst.att_shape[1].lo
         /\ out.val[j][4].hi = 0 /\ out.val[j][4].lo < inst.att_shape[2].lo

\* A CropCenter whose translation wrapped around (center - size // 2 < 0)
\* returned an event and removed another.
C4_Witness ==
  /\ inst.cls = "CropCenter" /\ Called1
  /\ inst.translation[1].hi = Limb - 1
  /\ out.kind = "returned"
  /\ Len(out.val) = 1 /\ Len(given) = 2

EventListTransforms ==
  {"CropDims", "CropCenter", "Downsample", "ToChannelHeightWidth",
   "ToCountFrame", "ToEventSum"}

\* C5: a call of an event-list transform leaves the caller's array
\* unchanged (the configuration is written by no call), so every later call
\* of the same instance on the same array returns what the first call did.
C5_CallsArePure ==
  (inst.cls \in EventListTransforms /\ Called1) =>
    array = given /\ SameResult(out, first)

\* C6: ToChannelHeightWidth on an array of n columns: n = 2 returns the
\* rows extended to (t, p, 0, 0); n = 4 returns the input unchanged; any
\* other n raises and returns no array.
C6_ToChannelHeightWidthCases ==
  (inst.cls = "ToChannelHeightWidth" /\ Called1) =>
    /\ given.n = 2 =>
         out = Returned([n |-> 4,
                         rows |-> [k \in 1..Len(given.rows) |->
                                     <<given.rows[k][1], given.rows[k][2], 0, 0>>]])
    /\ given.n = 4 => out = Returned(given)
    /\ given.n \notin {2, 4} => out.kind = "raised"

\* ToChannelHeightWidth raised on a three-column array with rows.
C6_Witness ==
  /\ inst.cls = "ToChannelHeightWidth" /\ Called1
  /\ given.n = 3 /\ Len(given.rows) = 2
  /\ out.kind = "raised"

\* C7: with xs = 0, ys = 0 and th = 0, Jitter returns its input unchanged.
C7_ZeroJitterIsIdentity ==
  (inst.cls = "Jitter" /\ Called1 /\ inst.xs = 0 /\ inst.ys = 0 /\ inst.th = 0) =>
    out = Returned(given) /\ array = given

\* A zero-magnitude Jitter was called on a tensor that is not constant.
C7_Witness ==
  /\ inst.cls = "Jitter" /\ Called1 /\ inst.xs = 0 /\ inst.ys = 0 /\ inst.th = 0
  /\ given[1][1] # given[2][2]
  /\ out.kind = "returned"

\* C8: for a non-empty time-sorted event list, every cell [i, p, x, y] of
\* the ToCountFrame output equals the number of input events with timestamp
\* exactly i, polarity p and coordinates (x, y), for any number of events.
C8_CellCountsItsEvents ==
  (inst.cls = "ToCountFrame" /\ Called1 /\ Len(given) > 0) =>
    /\ out.kind = "returned"
    /\ \A c \in DOMAIN out.val :
         out.val[c] = Cardinality({k \in 1..Len(given) : given[k] = c})

\* The two samples of a batch agree on channel c at every time bin up to t.
AgreeUpTo(batch, c, t) ==
  \A s \in 1..Len(batch[1]) : s <= t => batch[1][s][c] = batch[2][s][c]

\* C9: with the default padding tpad = kernel_length // 2 the filter is
\* causal: the output at time bin t of a channel depends only on the input at
\* time bins <= t of that channel.  Stated on the two samples of a batch
\* filtered channel by channel (groups = channel count).
C9_FilterIsCausal ==
  (inst.cls \in {"FilterEvents", "ExpFilterEvents"} /\ Called1
     /\ inst.groups = Len(inst.kernel) /\ given.ndim = 5 /\ out.kind = "returned") =>
    \A t \in 1..Len(out.val.val[1]) : \A c \in 1..Len(inst.kernel) :
      AgreeUpTo(given.val, c, t) => out.val.val[1][t][c] = out.val.val[2][t][c]

\* The two samples of a batch agree on channel c at every time bin.
AgreeOn(batch, c) == AgreeUpTo(batch, c, Len(batch[1]))

\* C10: for every channels >= 1, ExpFilterEvents(length, tau, channels) has
\* groups equal to the channel count, and output channel c depends only on
\* input channel c.
C10_ExpGroupsIsChannels ==
  inst.cls = "ExpFilterEvents" =>
    /\ inst.groups = Len(inst.kernel)
    /\ (Called1 /\ given.ndim = 5 /\ out.kind = "returned") =>
         \A c \in 1..Len(inst.kernel) :
           (c <= Len(given.val[1][1]) /\ AgreeOn(given.val, c)) =>
             \A t \in 1..Len(out.val.val[1]) :
               out.val.val[1][t][c] = out.val.val[2][t][c]

====
